---------------------------- MODULE Spec2Model ----------------------------
(***************************************************************************)
(* A model of the receipt text-interpretation engine of AutoSplit:         *)
(*   backend/ocr_parser.py  _is_metadata_line, _normalize_number_token,    *)
(*                          extract_lines_with_prices                      *)
(*   backend/nlp_parser.py  _is_metadata_line, _clean_and_convert_token,   *)
(*                          find_total_amount, detect_person_item_relations*)
(*                                                                         *)
(* Python strings are sequences of one-character strings, so that the      *)
(* regular expressions and string methods of the source are computed       *)
(* character by character.  Python floats are exact decimals               *)
(* [ip |-> integer part, fp |-> fraction in units of 10^-FracDigits].      *)
(* None is the record None (a number) or the sequence NoneText (a text).   *)
(***************************************************************************)
EXTENDS Integers, Sequences, FiniteSets, TLC

VARIABLES
    tok,              \* the token handed to the two normalizers
    context_numbers,  \* the context handed to the two normalizers
    line,             \* the line handed to the two classifiers
    raw_text,         \* the text handed to extract / resolve / associate
    items,            \* the item list handed to detect_person_item_relations
    ner_persons,      \* what the NER collaborator yields for raw_text
    ret               \* the value each completed call returned, by call name

vars == <<tok, context_numbers, line, raw_text, items, ner_persons, ret>>

-----------------------------------------------------------------------------
(* Bounds of the model *)

\* longest token drawn for the normalizers
MaxTokLen == 6

\* number of fractional decimal digits a value can hold: no token drawn has more
FracDigits == MaxTokLen

-----------------------------------------------------------------------------
(* Characters and strings *)

NL == "\n"
Digits == {"0", "1", "2", "3", "4", "5", "6", "7", "8", "9"}
UpperLetters == <<"A", "B", "C", "D", "E", "F", "G", "H", "I", "J", "K", "L", "M",
                  "N", "O", "P", "Q", "R", "S", "T", "U", "V", "W", "X", "Y", "Z">>
LowerLetters == <<"a", "b", "c", "d", "e", "f", "g", "h", "i", "j", "k", "l", "m",
                  "n", "o", "p", "q", "r", "s", "t", "u", "v", "w", "x", "y", "z">>

UpperSet == {UpperLetters[i] : i \in 1..26}
LowerSet == {LowerLetters[i] : i \in 1..26}
ToLower == [c \in UpperSet |-> LowerLetters[CHOOSE i \in 1..26 : UpperLetters[i] = c]]

IsDigit(c) == c \in Digits
IsUpper(c) == c \in UpperSet
IsLower(c) == c \in LowerSet
\* \s of the regular expressions, and what str.strip() removes
IsSpace(c) == c \in {" ", "\t", NL}
\* \w of the regular expressions
IsWord(c) == IsDigit(c) \/ IsUpper(c) \/ IsLower(c) \/ c = "_"
\* [0-9\.,]
IsNumChar(c) == IsDigit(c) \/ c \in {".", ","}

LowerChar(c) == IF IsUpper(c) THEN ToLower[c] ELSE c

\* str.lower()
Lower(s) == [i \in 1..Len(s) |-> LowerChar(s[i])]

\* k in s
Contains(s, k) ==
    \/ k = << >>
    \/ \E i \in 1..(Len(s) - Len(k) + 1) : s[i] = k[1] /\ SubSeq(s, i, i + Len(k) - 1) = k

\* s.find(k) as a 1-based index; 0 when absent (Python: -1)
Find(s, k) ==
    LET at == {i \in 1..(Len(s) - Len(k) + 1) :
                  k = << >> \/ (s[i] = k[1] /\ SubSeq(s, i, i + Len(k) - 1) = k)}
    IN  IF at = {} THEN 0 ELSE CHOOSE i \in at : \A j \in at : i <= j

\* s.rfind(c) as a 1-based index; 0 when absent
RFind(s, c) ==
    IF \E i \in 1..Len(s) : s[i] = c
    THEN CHOOSE i \in 1..Len(s) : s[i] = c /\ \A j \in (i + 1)..Len(s) : s[j] # c
    ELSE 0

HasChar(s, c) == \E i \in 1..Len(s) : s[i] = c

\* s.replace(c, '')
Remove(s, c) == SelectSeq(s, LAMBDA x : x # c)

\* s.replace(c, d)
Replace(s, c, d) == [i \in 1..Len(s) |-> IF s[i] = c THEN d ELSE s[i]]

\* str.strip()
Strip(s) ==
    IF \A i \in 1..Len(s) : IsSpace(s[i]) THEN << >>
    ELSE LET a == CHOOSE i \in 1..Len(s) :
                      ~IsSpace(s[i]) /\ \A j \in 1..(i - 1) : IsSpace(s[j])
             b == CHOOSE i \in 1..Len(s) :
                      ~IsSpace(s[i]) /\ \A j \in (i + 1)..Len(s) : IsSpace(s[j])
         IN  SubSeq(s, a, b)

\* s.strip('.')
StripDots(s) ==
    IF \A i \in 1..Len(s) : s[i] = "." THEN << >>
    ELSE LET a == CHOOSE i \in 1..Len(s) : s[i] # "." /\ \A j \in 1..(i - 1) : s[j] = "."
             b == CHOOSE i \in 1..Len(s) :
                      s[i] # "." /\ \A j \in (i + 1)..Len(s) : s[j] = "."
         IN  SubSeq(s, a, b)

\* len(s.split(c)[-1])
LastPartLen(s, c) == Len(s) - RFind(s, c)

-----------------------------------------------------------------------------
(* Numbers *)

None == [none |-> TRUE]
NoneText == <<"None">>

RECURSIVE Pow10(_)
Pow10(n) == IF n = 0 THEN 1 ELSE 10 * Pow10(n - 1)

FracUnit == Pow10(FracDigits)

DigitValues ==
    [c \in Digits |->
        CHOOSE d \in 0..9 : <<"0", "1", "2", "3", "4", "5", "6", "7", "8", "9">>[d + 1] = c]
DigitVal(c) == DigitValues[c]

\* int(s) of a string of digits (the empty string reads as 0 here; int('') raises,
\* which the callers below decide before they use this)
RECURSIVE DigitsToInt(_)
DigitsToInt(s) ==
    IF s = << >> THEN 0
    ELSE 10 * DigitsToInt(SubSeq(s, 1, Len(s) - 1)) + DigitVal(s[Len(s)])

AllDigits(s) == \A i \in 1..Len(s) : IsDigit(s[i])

IntToFloat(n) == [ip |-> n, fp |-> 0]

\* float(s): digits with exactly one '.', at least one digit; anything else of the
\* strings that reach it (digits and dots only) raises ValueError
FloatParses(s) ==
    /\ \A i \in 1..Len(s) : IsDigit(s[i]) \/ s[i] = "."
    /\ Len(SelectSeq(s, LAMBDA c : c = ".")) <= 1
    /\ \E i \in 1..Len(s) : IsDigit(s[i])

ParseFloat(s) ==
    LET p == RFind(s, ".")
        whole == IF p = 0 THEN s ELSE SubSeq(s, 1, p - 1)
        frac == IF p = 0 THEN << >> ELSE SubSeq(s, p + 1, Len(s))
    IN  [ip |-> DigitsToInt(whole),
         fp |-> DigitsToInt(frac) * Pow10(FracDigits - Len(frac))]

\* float(val) / 100.0
Div100(val) == [ip |-> val \div 100, fp |-> (val % 100) * Pow10(FracDigits - 2)]

\* x.is_integer()
IsInteger(x) == x.fp = 0

\* x < y, x <= y on numbers
Less(x, y) == x.ip < y.ip \/ (x.ip = y.ip /\ x.fp < y.fp)
LessEq(x, y) == x = y \/ Less(x, y)

Zero == IntToFloat(0)

\* n * x
Times(n, x) == [ip |-> n * x.ip + ((n * x.fp) \div FracUnit), fp |-> (n * x.fp) % FracUnit]

\* any(isinstance(x, float) and not x.is_integer() for x in context)
HasFractional(context) ==
    /\ context # None
    /\ \E i \in 1..Len(context.vals) : ~IsInteger(context.vals[i])

-----------------------------------------------------------------------------
(* ocr_parser._normalize_number_token *)

\* re.fullmatch(r'\d+(\.\d+)?', s)
FullMatchNumber(s) ==
    /\ s # << >>
    /\ \A i \in 1..Len(s) : IsDigit(s[i]) \/ s[i] = "."
    /\ Len(SelectSeq(s, LAMBDA c : c = ".")) <= 1
    /\ IsDigit(s[1]) /\ IsDigit(s[Len(s)])

\* the separator decision, lines 67-100
ocr_separators(s) ==
    IF HasChar(s, ".") /\ HasChar(s, ",")
    THEN IF RFind(s, ".") > RFind(s, ",")
         THEN Remove(s, ",")
         ELSE Replace(Remove(s, "."), ",", ".")
    ELSE IF HasChar(s, ",")
         THEN IF LastPartLen(s, ",") = 2 THEN Replace(s, ",", ".")
              ELSE IF LastPartLen(s, ",") = 3 THEN Remove(s, ",")
              ELSE Replace(s, ",", ".")
         ELSE IF HasChar(s, ".")
              THEN IF LastPartLen(s, ".") <= 2 THEN s ELSE Remove(s, ".")
              ELSE s

\* ocr_magnitude with the context test dropped: four digits always read as cents
ocr_magnitude_no_context(s, context) ==
    IF Len(s) <= 3 THEN IntToFloat(DigitsToInt(s)) ELSE Div100(DigitsToInt(s))

\* the magnitude heuristic on an integer string, lines 117-140
ocr_magnitude(s, context) ==
    LET val == DigitsToInt(s)
        length == Len(s)
    IN  IF length <= 3 THEN IntToFloat(val)
        ELSE IF context # None /\ context.vals # << >> /\ HasFractional(context)
             THEN Div100(val)
             ELSE IF length >= 5 THEN Div100(val)
                  ELSE IntToFloat(val)

normalize_number_token(t, context) ==
    IF t = NoneText \/ t = << >> \/ ~\E i \in 1..Len(t) : IsDigit(t[i])
    THEN None
    ELSE LET s0 == SelectSeq(Strip(t), LAMBDA c : IsNumChar(c) \/ c = "-")
             s1 == StripDots(ocr_separators(s0))
             s == IF FullMatchNumber(s1) THEN s1
                  ELSE SelectSeq(s1, LAMBDA c : IsDigit(c) \/ c = ".")
         IN  IF s = << >> THEN None
             ELSE IF HasChar(s, ".")
                  THEN IF FloatParses(s) THEN ParseFloat(s) ELSE None
                  ELSE IF AllDigits(s) THEN ocr_magnitude(s, context) ELSE None

-----------------------------------------------------------------------------
(* nlp_parser._clean_and_convert_token *)

\* the separator decision, lines 38-58
nlp_separators(s) ==
    IF HasChar(s, ".") /\ HasChar(s, ",")
    THEN IF RFind(s, ".") > RFind(s, ",")
         THEN Remove(s, ",")
         ELSE Replace(Remove(s, "."), ",", ".")
    ELSE IF HasChar(s, ",")
         THEN IF LastPartLen(s, ",") = 2 THEN Replace(s, ",", ".")
              ELSE IF LastPartLen(s, ",") = 3 THEN Remove(s, ",")
              ELSE Replace(s, ",", ".")
         ELSE IF HasChar(s, ".")
              THEN IF LastPartLen(s, ".") > 2 THEN Remove(s, ".") ELSE s
              ELSE s

\* the magnitude heuristic on an integer string, lines 66-79
nlp_magnitude(s, context) ==
    LET val == DigitsToInt(s)
    IN  IF Len(s) >= 5 THEN Div100(val)
        ELSE IF context # None /\ context.vals # << >> /\ HasFractional(context)
                /\ Len(s) >= 4
             THEN Div100(val)
             ELSE IntToFloat(val)

clean_and_convert_token(t, context) ==
    IF t = NoneText THEN None
    ELSE LET s0 == SelectSeq(Strip(t), LAMBDA c : IsNumChar(c))
         IN  IF s0 = << >> THEN None
             ELSE LET s == nlp_separators(s0)
                  IN  IF HasChar(s, ".")
                      THEN IF FloatParses(s) THEN ParseFloat(s) ELSE None
                      ELSE IF s # << >> /\ AllDigits(s) THEN nlp_magnitude(s, context)
                           ELSE None

-----------------------------------------------------------------------------
(* The two line classifiers *)

OCR_METADATA_KEYWORDS ==
    << <<"i", "n", "v", "o", "i", "c", "e">>,
       <<"i", "n", "v", "o", "i", "c", "e", " ", "n", "o">>,
       <<"i", "n", "v", "o", "i", "c", "e", "#">>,
       <<"b", "i", "l", "l", " ", "n", "o">>,
       <<"b", "i", "l", "l", "#">>,
       <<"d", "a", "t", "e">>,
       <<"t", "i", "m", "e">>,
       <<"g", "s", "t">>,
       <<"t", "a", "x">>,
       <<"s", "u", "b", "t", "o", "t", "a", "l">>,
       <<"t", "o", "t", "a", "l", " ", "d", "u", "e">>,
       <<"a", "m", "o", "u", "n", "t", " ", "d", "u", "e">>,
       <<"a", "m", "o", "u", "n", "t">>,
       <<"p", "h", "o", "n", "e">>,
       <<"t", "e", "l">>,
       <<"m", "o", "b", "i", "l", "e">>,
       <<"o", "r", "d", "e", "r", " ", "n", "o">>,
       <<"o", "r", "d", "e", "r", "#">>,
       <<"q", "t", "y">>,
       <<"q", "u", "a", "n", "t", "i", "t", "y">>,
       <<"i", "d">>,
       <<"c", "a", "s", "h">>,
       <<"c", "a", "r", "d">>,
       <<"p", "a", "i", "d">>,
       <<"c", "h", "a", "n", "g", "e">>,
       <<"r", "e", "c", "e", "i", "p", "t">>,
       <<"t", "a", "x", "a", "b", "l", "e">>,
       <<"v", "a", "t">>,
       <<"t", "i", "n">>,
       <<"g", "s", "t", "i", "n">>,
       <<"m", "e", "r", "c", "h", "a", "n", "t">>,
       <<"a", "d", "d", "r", "e", "s", "s">>,
       <<"e", "m", "a", "i", "l">> >>

NLP_METADATA_KEYWORDS ==
    << <<"i", "n", "v", "o", "i", "c", "e">>,
       <<"i", "n", "v", "o", "i", "c", "e", " ", "n", "o">>,
       <<"i", "n", "v", "o", "i", "c", "e", "#">>,
       <<"b", "i", "l", "l", " ", "n", "o">>,
       <<"b", "i", "l", "l", "#">>,
       <<"d", "a", "t", "e">>,
       <<"t", "i", "m", "e">>,
       <<"g", "s", "t">>,
       <<"t", "a", "x">>,
       <<"s", "u", "b", "t", "o", "t", "a", "l">>,
       <<"a", "m", "o", "u", "n", "t", " ", "d", "u", "e">>,
       <<"t", "o", "t", "a", "l", " ", "d", "u", "e">>,
       <<"a", "m", "o", "u", "n", "t">>,
       <<"p", "h", "o", "n", "e">>,
       <<"t", "e", "l">>,
       <<"m", "o", "b", "i", "l", "e">>,
       <<"o", "r", "d", "e", "r", " ", "n", "o">>,
       <<"q", "t", "y">>,
       <<"q", "u", "a", "n", "t", "i", "t", "y">>,
       <<"i", "d">>,
       <<"p", "a", "i", "d">>,
       <<"c", "h", "a", "n", "g", "e">>,
       <<"r", "e", "c", "e", "i", "p", "t">> >>

\* the n of \d{n,}
LongDigitRun == 8

\* re.search(r'[/\\\-]{1,}', l) and re.search(r'\d', l)
DateLike(l) ==
    /\ \E i \in 1..Len(l) : l[i] \in {"/", "\\", "-"}
    /\ \E i \in 1..Len(l) : IsDigit(l[i])

\* re.search(r'\d{8,}', l)
HasLongDigitRun(l) ==
    \E i \in 1..(Len(l) - LongDigitRun + 1) :
        \A j \in i..(i + LongDigitRun - 1) : IsDigit(l[j])

HasKeyword(l, keywords) ==
    LET low == Lower(l)
    IN  \E k \in 1..Len(keywords) : Contains(low, keywords[k])

ocr_is_metadata_line(l) ==
    HasKeyword(l, OCR_METADATA_KEYWORDS) \/ DateLike(l) \/ HasLongDigitRun(l)

nlp_is_metadata_line(l) ==
    HasKeyword(l, NLP_METADATA_KEYWORDS) \/ DateLike(l) \/ HasLongDigitRun(l)

-----------------------------------------------------------------------------
(* Lines and numeric tokens *)

\* [l.strip() for l in raw_text.splitlines() if l.strip()]
\* the lines of s from position i on, the current line starting at position from
RECURSIVE SplitFrom(_, _, _)
SplitFrom(s, i, from) ==
    IF i > Len(s) THEN (IF from > Len(s) THEN << >> ELSE <<SubSeq(s, from, Len(s))>>)
    ELSE IF s[i] = NL THEN <<SubSeq(s, from, i - 1)>> \o SplitFrom(s, i + 1, i + 1)
         ELSE SplitFrom(s, i + 1, from)

SplitLines(s) == SplitFrom(s, 1, 1)

StrippedLines(text) ==
    LET split == SplitLines(text)
    IN  SelectSeq([i \in 1..Len(split) |-> Strip(split[i])], LAMBDA l : l # << >>)

\* the m of [0-9\.,]{0,m}
MaxTokenMiddle == 20

\* where [0-9][0-9\.,]{0,20}[0-9] ends when matched at i: the middle is greedy and
\* gives back until a digit closes the token; 0 when it does not match at i
TokenEnd(s, i) ==
    LET ends == {j \in (i + 1)..Len(s) :
                    /\ j - i - 1 <= MaxTokenMiddle
                    /\ IsDigit(s[j])
                    /\ \A m \in (i + 1)..(j - 1) : IsNumChar(s[m])}
    IN  IF i >= 1 /\ i <= Len(s) /\ IsDigit(s[i]) /\ ends # {}
        THEN CHOOSE j \in ends : \A m \in ends : m <= j
        ELSE 0

\* the group of the numeric token of every match of finditer, from position i on.
\* The optional currency prefix of _AMT_RE and _NUM_TOKEN_RE consumes no character
\* of a token, so the tokens are those of the token pattern alone.
RECURSIVE TokensFrom(_, _)
TokensFrom(s, i) ==
    IF i > Len(s) THEN << >>
    ELSE LET e == TokenEnd(s, i)
         IN  IF e > 0 THEN <<SubSeq(s, i, e)>> \o TokensFrom(s, e + 1)
             ELSE TokensFrom(s, i + 1)

Tokens(s) == TokensFrom(s, 1)

\* every token of every line, in order
RECURSIVE AllTokens(_)
AllTokens(lines) ==
    IF lines = << >> THEN << >> ELSE Tokens(Head(lines)) \o AllTokens(Tail(lines))

\* _RIGHTMOST_NUM_RE.search(l): the leftmost start of a token that is followed by
\* white space only up to the end of the line; << >> when there is none
RightmostToken(l) ==
    LET closes(i) == {j \in (i + 1)..Len(l) :
                         /\ j - i - 1 <= MaxTokenMiddle
                         /\ IsDigit(l[j])
                         /\ \A m \in (i + 1)..(j - 1) : IsNumChar(l[m])
                         /\ \A m \in (j + 1)..Len(l) : IsSpace(l[m])}
        starts == {i \in 1..Len(l) : IsDigit(l[i]) /\ closes(i) # {}}
    IN  IF starts = {} THEN << >>
        ELSE LET i == CHOOSE a \in starts : \A b \in starts : a <= b
                 j == CHOOSE a \in closes(i) : \A b \in closes(i) : b <= a
             IN  SubSeq(l, i, j)

\* round(x, 2).  Python rounds the binary value of the float: on a decimal tie
\* (a third decimal 5 and nothing after it) the result depends on which side of the
\* tie the binary value lies; `ups` is the set of the tie values that round up.
Round2(x, ups) ==
    LET h == FracUnit \div 100
        q == x.fp \div h
        r == x.fp % h
        up == 2 * r > h \/ (2 * r = h /\ x \in ups)
    IN  IF ~up THEN [ip |-> x.ip, fp |-> q * h]
        ELSE IF q = 99 THEN [ip |-> x.ip + 1, fp |-> 0]
             ELSE [ip |-> x.ip, fp |-> (q + 1) * h]

\* whether round(x, 2) is a decimal tie
IsTie(x) == x # None /\ 2 * (x.fp % (FracUnit \div 100)) = FracUnit \div 100

-----------------------------------------------------------------------------
(* ocr_parser.extract_lines_with_prices *)

\* the largest price kept
MAX_PRICE == 1000000

\* lines 186-195: the token as the pre-scan keeps it (the replace() of ' ', the rupee
\* sign, 'Rs' and 'INR' find nothing in a token of digits, dots and commas)
ocr_context_token(t) ==
    IF HasChar(t, ",") /\ HasChar(t, ".")
    THEN IF RFind(t, ".") > RFind(t, ",")
         THEN Remove(t, ",")
         ELSE Replace(Remove(t, "."), ",", ".")
    ELSE t

\* lines 181-204: the floats of the tokens that hold a '.', where float() succeeds
ocr_context(lines) ==
    LET tokens == AllTokens(lines)
        cleaned == [i \in 1..Len(tokens) |-> ocr_context_token(tokens[i])]
        good == SelectSeq(cleaned,
                          LAMBDA t : HasChar(t, ".") /\ FloatParses(Remove(t, ",")))
    IN  [i \in 1..Len(good) |-> ParseFloat(Remove(good[i], ","))]

\* lines 212-220: the token anchored at the end of the line, else the first token
ChosenToken(ln) ==
    LET m_right == RightmostToken(ln)
        m_any == Tokens(ln)
    IN  IF m_right # << >> THEN m_right
        ELSE IF m_any # << >> THEN m_any[1]
        ELSE << >>

\* re.sub(re.escape(chosen) + r'\s*$', '', ln).strip()
DropChosenAtEnd(ln, chosen) ==
    LET at == {i \in 1..(Len(ln) - Len(chosen) + 1) :
                  /\ SubSeq(ln, i, i + Len(chosen) - 1) = chosen
                  /\ \A m \in (i + Len(chosen))..Len(ln) : IsSpace(ln[m])}
    IN  IF at = {} THEN Strip(ln)
        ELSE Strip(SubSeq(ln, 1, (CHOOSE i \in at : \A j \in at : i <= j) - 1))

\* re.sub(r'^[\s\$\€\₹\£]+', '', d).strip()
DropLeadingCurrency(d) ==
    LET lead(c) == IsSpace(c) \/ c \in {"$", "€", "₹", "£"}
    IN  IF \A i \in 1..Len(d) : lead(d[i]) THEN << >>
        ELSE Strip(SubSeq(d, CHOOSE i \in 1..Len(d) :
                                 ~lead(d[i]) /\ \A j \in 1..(i - 1) : lead(d[j]),
                          Len(d)))

\* re.sub(r'^\d+[\.\)\-]\s*', '', d).strip()
DropNumbering(d) ==
    LET n == IF \A i \in 1..Len(d) : IsDigit(d[i]) THEN Len(d)
             ELSE (CHOOSE i \in 1..Len(d) :
                       ~IsDigit(d[i]) /\ \A j \in 1..(i - 1) : IsDigit(d[j])) - 1
    IN  IF n >= 1 /\ n < Len(d) /\ d[n + 1] \in {".", ")", "-"}
        THEN Strip(SubSeq(d, n + 2, Len(d)))
        ELSE Strip(d)

Description(ln, chosen) ==
    LET desc == DropNumbering(DropLeadingCurrency(DropChosenAtEnd(ln, chosen)))
    IN  IF desc # << >> THEN desc ELSE <<"(", "i", "t", "e", "m", ")">>

\* line 239: price <= 0 or price > 1000000
PriceRejected(price) == LessEq(price, Zero) \/ Less(IntToFloat(MAX_PRICE), price)

\* lines 206-242, one turn of the loop: the items the line adds (none or one)
ItemsOfLine(ln, context, ups) ==
    LET chosen == ChosenToken(ln)
        price == normalize_number_token(chosen, context)
    IN  IF ocr_is_metadata_line(ln) THEN << >>
        ELSE IF chosen = << >> THEN << >>
        ELSE IF price = None THEN << >>
        ELSE IF PriceRejected(price) THEN << >>
        ELSE << [description |-> Description(ln, chosen),
                 price |-> Round2(price, ups),
                 raw_line |-> ln] >>

RECURSIVE ItemsOfLines(_, _, _)
ItemsOfLines(lines, context, ups) ==
    IF lines = << >> THEN << >>
    ELSE ItemsOfLine(Head(lines), context, ups)
             \o ItemsOfLines(Tail(lines), context, ups)

\* extract_lines_with_prices without the guard of line 172: None has no
\* splitlines(), the call raises
extract_lines_with_prices_unguarded(text, ups) ==
    IF text = NoneText THEN <<"AttributeError">>
    ELSE ItemsOfLines(StrippedLines(text),
                      IF ocr_context(StrippedLines(text)) = << >> THEN None
                      ELSE [vals |-> ocr_context(StrippedLines(text))],
                      ups)

\* lines 167-244
extract_lines_with_prices(text, ups) ==
    IF text = NoneText \/ text = << >> THEN << >>
    ELSE LET lines == StrippedLines(text)
             floats == ocr_context(lines)
         IN  ItemsOfLines(lines,
                          IF floats = << >> THEN None ELSE [vals |-> floats],
                          ups)

-----------------------------------------------------------------------------
(* nlp_parser.find_total_amount *)

\* how many of the last lines each phase reads
PHASE1_LINES == 12
PHASE2_LINES == 20
\* the exclusive upper limit of a phase 2 candidate
MAX_TOTAL == 10000000

\* lines[-n:]
LastLines(lines, n) ==
    IF Len(lines) <= n THEN lines ELSE SubSeq(lines, Len(lines) - n + 1, Len(lines))

\* reversed(lines)
Reversed(lines) == [i \in 1..Len(lines) |-> lines[Len(lines) + 1 - i]]

\* lines 95-105: the floats of the tokens that hold a '.', where float() succeeds
nlp_context(lines) ==
    LET good == SelectSeq(AllTokens(lines),
                          LAMBDA t : HasChar(t, ".") /\ FloatParses(Remove(t, ",")))
    IN  [vals |-> [i \in 1..Len(good) |-> ParseFloat(Remove(good[i], ","))]]

TOTAL_KEYWORDS ==
    << <<"t", "o", "t", "a", "l">>,
       <<"a", "m", "o", "u", "n", "t", " ", "d", "u", "e">>,
       <<"a", "m", "o", "u", "n", "t", " ", "p", "a", "y", "a", "b", "l", "e">>,
       <<"a", "m", "o", "u", "n", "t">> >>

TOTAL_WORD == <<"t", "o", "t", "a", "l">>

\* where \s* stops from position i on
RECURSIVE SkipSpaces(_, _)
SkipSpaces(s, i) == IF i <= Len(s) /\ IsSpace(s[i]) THEN SkipSpaces(s, i + 1) ELSE i

\* where, after a keyword that ends before position i, \s*[:\-]?\s* stops
AfterSeparator(s, i) ==
    LET a == SkipSpaces(s, i)
    IN  IF a <= Len(s) /\ s[a] \in {":", "-"} THEN SkipSpaces(s, a + 1) ELSE a

\* whether keyword k, read case-insensitively at position p, is followed by
\* \s*[:\-]?\s* and a numeric token
KeywordMatchesAt(s, p, k) ==
    /\ p + Len(k) - 1 <= Len(s)
    /\ Lower(SubSeq(s, p, p + Len(k) - 1)) = k
    /\ TokenEnd(s, AfterSeparator(s, p + Len(k))) > 0

\* group 2 of the match of total_kw_re at position p (the first alternative that
\* matches)
KeywordTokenAt(s, p) ==
    LET k == TOTAL_KEYWORDS[CHOOSE a \in 1..Len(TOTAL_KEYWORDS) :
                 /\ KeywordMatchesAt(s, p, TOTAL_KEYWORDS[a])
                 /\ \A b \in 1..(a - 1) : ~KeywordMatchesAt(s, p, TOTAL_KEYWORDS[b])]
        i == AfterSeparator(s, p + Len(k))
    IN  SubSeq(s, i, TokenEnd(s, i))

KeywordPositions(s) ==
    {p \in 1..Len(s) :
        \E a \in 1..Len(TOTAL_KEYWORDS) : KeywordMatchesAt(s, p, TOTAL_KEYWORDS[a])}

\* total_kw_re.search(ln): group 2 of the leftmost match; << >> when none
total_kw_search(ln) ==
    IF KeywordPositions(ln) = {} THEN << >>
    ELSE KeywordTokenAt(ln, CHOOSE p \in KeywordPositions(ln) :
                                \A q \in KeywordPositions(ln) : p <= q)

\* Phase1Skips with the metadata test dropped: phase 1 reads every line
Phase1Skips_nothing(ln) == FALSE

\* line 110: a metadata line that does not mention 'total' is skipped
Phase1Skips(ln) == nlp_is_metadata_line(ln) /\ ~Contains(Lower(ln), TOTAL_WORD)

\* lines 113-117: the total the line gives phase 1, None when it gives none
Phase1Total(ln, context) ==
    LET raw_tok == total_kw_search(ln)
        total == clean_and_convert_token(raw_tok, context)
    IN  IF Phase1Skips(ln) \/ raw_tok = << >> THEN None
        ELSE IF total # None /\ Less(Zero, total) THEN total ELSE None

\* lines 109-118: the loop over the lines of scan; None when no line gives a total
RECURSIVE Phase1Scan(_, _)
Phase1Scan(scan, context) ==
    IF scan = << >> THEN None
    ELSE LET total == Phase1Total(Head(scan), context)
         IN  IF total # None THEN total ELSE Phase1Scan(Tail(scan), context)

\* Phase1 scanning from the top of the window: the earliest line wins
Phase1_forward(lines, context) == Phase1Scan(LastLines(lines, PHASE1_LINES), context)

\* lines 109-118: the last 12 lines, from the end of the document backward
Phase1(lines, context) == Phase1Scan(Reversed(LastLines(lines, PHASE1_LINES)), context)

\* line 127
IsCandidate(val) == val # None /\ Less(Zero, val) /\ Less(val, IntToFloat(MAX_TOTAL))

\* lines 125-128: the candidates of one line
LineCandidates(ln, context) ==
    LET tokens == Tokens(ln)
        vals == [i \in 1..Len(tokens) |-> clean_and_convert_token(tokens[i], context)]
    IN  SelectSeq(vals, IsCandidate)

\* lines 121-128
RECURSIVE CandidatesOf(_, _)
CandidatesOf(scan, context) ==
    IF scan = << >> THEN << >>
    ELSE (IF nlp_is_metadata_line(Head(scan)) THEN << >>
          ELSE LineCandidates(Head(scan), context))
             \o CandidatesOf(Tail(scan), context)

Candidates(lines, context) == CandidatesOf(Reversed(LastLines(lines, PHASE2_LINES)), context)

\* sorted(candidates, key=value, reverse=True), the values
RECURSIVE InsertDesc(_, _)
InsertDesc(sorted, v) ==
    IF sorted = << >> THEN <<v>>
    ELSE IF Less(Head(sorted), v) THEN <<v>> \o sorted
         ELSE <<Head(sorted)>> \o InsertDesc(Tail(sorted), v)

RECURSIVE SortedDesc(_)
SortedDesc(cands) ==
    IF cands = << >> THEN << >>
    ELSE InsertDesc(SortedDesc(SubSeq(cands, 1, Len(cands) - 1)), cands[Len(cands)])

\* the ratio of the outlier test
OUTLIER_RATIO == 50

\* IsOutlier with the ratio of the comment of line 133, "more than 20x"
IsOutlier_20(top, second) == Less(Zero, second) /\ Less(Times(20, second), top)

\* line 136: second > 0 and top / second > 50
IsOutlier(top, second) == Less(Zero, second) /\ Less(Times(OUTLIER_RATIO, second), top)

\* lines 130-141
Phase2Pick(cands) ==
    LET cand_sorted == SortedDesc(cands)
    IN  IF cand_sorted = << >> THEN None
        ELSE IF Len(cand_sorted) >= 2 /\ IsOutlier(cand_sorted[1], cand_sorted[2])
             THEN cand_sorted[2]
             ELSE cand_sorted[1]

find_total_amount(text, ups) ==
    IF text = NoneText \/ text = << >> THEN None
    ELSE LET lines == StrippedLines(text)
             context == nlp_context(lines)
             explicit == Phase1(lines, context)
             largest == Phase2Pick(Candidates(lines, context))
         IN  IF explicit # None THEN Round2(explicit, ups)
             ELSE IF largest = None THEN None
                  ELSE Round2(largest, ups)

-----------------------------------------------------------------------------
(* nlp_parser.detect_person_item_relations *)

\* the characters read on each side of the raw line
WINDOW == 80
\* the least length of a name that is looked for
MIN_NAME_LEN == 2

\* where [A-Z][a-z]+ ends when matched at i; 0 when it does not match at i
CapWordEnd(s, i) ==
    IF i >= 1 /\ i + 1 <= Len(s) /\ IsUpper(s[i]) /\ IsLower(s[i + 1])
    THEN CHOOSE j \in (i + 1)..Len(s) :
             /\ \A m \in (i + 1)..j : IsLower(s[m])
             /\ (j = Len(s) \/ ~IsLower(s[j + 1]))
    ELSE 0

\* where the word after \s+ starts, given a word that ends at j; 0 when no white space
NextWordStart(s, j) == IF j >= 1 /\ SkipSpaces(s, j + 1) > j + 1 THEN SkipSpaces(s, j + 1) ELSE 0

IsWordAt(s, i) == i >= 1 /\ i <= Len(s) /\ IsWord(s[i])

\* \b between positions i - 1 and i
WordBoundary(s, i) == IsWordAt(s, i - 1) # IsWordAt(s, i)

\* where \b([A-Z][a-z]+(?:\s+[A-Z][a-z]+){0,2})\b ends when matched at i: the most
\* words, up to three, that end at a word boundary; 0 when it does not match at i
NameEnd(s, i) ==
    LET e1 == CapWordEnd(s, i)
        e2 == IF e1 > 0 THEN CapWordEnd(s, NextWordStart(s, e1)) ELSE 0
        e3 == IF e2 > 0 THEN CapWordEnd(s, NextWordStart(s, e2)) ELSE 0
        ok(e) == e > 0 /\ WordBoundary(s, e + 1)
    IN  IF ~WordBoundary(s, i) THEN 0
        ELSE IF ok(e3) THEN e3
        ELSE IF ok(e2) THEN e2
        ELSE IF ok(e1) THEN e1
        ELSE 0

\* lines 165-169: the candidates of the fallback, from position i on
RECURSIVE FallbackFrom(_, _)
FallbackFrom(s, i) ==
    IF i > Len(s) THEN << >>
    ELSE IF NameEnd(s, i) > 0
         THEN LET candidate == Strip(SubSeq(s, i, NameEnd(s, i)))
              IN  (IF Len(candidate) > 1 /\ ~nlp_is_metadata_line(candidate)
                   THEN <<candidate>> ELSE << >>)
                      \o FallbackFrom(s, NameEnd(s, i) + 1)
         ELSE FallbackFrom(s, i + 1)

\* lines 153-169: the names of the NER collaborator, else those of the fallback
Persons(text, ner) == IF ner # << >> THEN ner ELSE FallbackFrom(text, 1)

\* re.search(r'\b' + re.escape(name) + r'\b', s)
WordSearch(name, s) ==
    \E p \in 1..(Len(s) - Len(name) + 1) :
        /\ s[p] = name[1]
        /\ SubSeq(s, p, p + Len(name) - 1) = name
        /\ WordBoundary(s, p)
        /\ WordBoundary(s, p + Len(name))

\* (it.get('raw_line') or '').lower()
RawLineOf(it) == IF it.raw_line = NoneText THEN << >> ELSE Lower(it.raw_line)

\* lower_text[max(0, idx - 80): idx + 80 + len(raw_line)], idx the 1-based find
Span(lower_text, raw, idx) ==
    SubSeq(lower_text,
           IF idx - WINDOW < 1 THEN 1 ELSE idx - WINDOW,
           IF idx + Len(raw) + WINDOW - 1 > Len(lower_text) THEN Len(lower_text)
           ELSE idx + Len(raw) + WINDOW - 1)

\* lines 179-190: whether the loop appends the name for the item
NameAssigned(name, raw_line, lower_text) ==
    LET idx == Find(lower_text, raw_line)
    IN  /\ name # << >>
        /\ Len(Strip(name)) >= MIN_NAME_LEN
        /\ \/ WordSearch(Lower(name), raw_line)
           \/ /\ idx # 0
              /\ WordSearch(Lower(name), Span(lower_text, raw_line, idx))

\* Dedupe that keeps every name
Dedupe_nothing(names) == names

\* list(dict.fromkeys(names))
RECURSIVE Dedupe(_)
Dedupe(names) ==
    IF names = << >> THEN << >>
    ELSE LET front == Dedupe(SubSeq(names, 1, Len(names) - 1))
             last == names[Len(names)]
         IN  IF \E i \in 1..Len(front) : front[i] = last THEN front
             ELSE Append(front, last)

\* the empty dict
EmptyMapping == [i \in {} |-> << >>]

detect_person_item_relations(its, text, ner) ==
    IF text = NoneText \/ text = << >> \/ its = << >> THEN EmptyMapping
    ELSE LET persons == Persons(text, ner)
             lower_text == Lower(text)
             assigned(i) ==
                 LET raw_line == RawLineOf(its[i + 1])
                 IN  SelectSeq(persons, LAMBDA n : NameAssigned(n, raw_line, lower_text))
             keys == {i \in 0..(Len(its) - 1) : assigned(i) # << >>}
         IN  [i \in keys |-> Dedupe(assigned(i))]

-----------------------------------------------------------------------------
(* The calls *)

Done(call) == call \in DOMAIN ret
Return(call, value) == ret' = ret @@ (call :> value)
Inputs == <<tok, context_numbers, line, raw_text, items, ner_persons>>

\* the values of the text whose rounding is a decimal tie
TieValues(text) ==
    IF text = NoneText THEN {}
    ELSE LET tokens == AllTokens(StrippedLines(text))
         IN  {v \in {clean_and_convert_token(tokens[i], None) : i \in 1..Len(tokens)} :
                 IsTie(v)}

NormalizeOcr ==
    /\ ~Done("normalize_ocr")
    /\ Return("normalize_ocr", normalize_number_token(tok, context_numbers))
    /\ UNCHANGED Inputs

NormalizeNlp ==
    /\ ~Done("normalize_nlp")
    /\ Return("normalize_nlp", clean_and_convert_token(tok, context_numbers))
    /\ UNCHANGED Inputs

ClassifyOcr ==
    /\ ~Done("classify_ocr")
    /\ Return("classify_ocr", ocr_is_metadata_line(line))
    /\ UNCHANGED Inputs

ClassifyNlp ==
    /\ ~Done("classify_nlp")
    /\ Return("classify_nlp", nlp_is_metadata_line(line))
    /\ UNCHANGED Inputs

Extract ==
    /\ ~Done("extract")
    /\ \E ups \in SUBSET TieValues(raw_text) :
           Return("extract", extract_lines_with_prices(raw_text, ups))
    /\ UNCHANGED Inputs

Resolve ==
    /\ ~Done("resolve")
    /\ \E ups \in SUBSET TieValues(raw_text) :
           Return("resolve", find_total_amount(raw_text, ups))
    /\ UNCHANGED Inputs

Associate ==
    /\ ~Done("associate")
    /\ Return("associate", detect_person_item_relations(items, raw_text, ner_persons))
    /\ UNCHANGED Inputs

-----------------------------------------------------------------------------
(* Tokens and contexts drawn for the normalizers *)

TokenChars == {"0", "1", ".", ","}

TokensUpTo(n) == UNION {[1..k -> TokenChars] : k \in 1..n}

ExampleTokens ==
    { <<"1", ",", "2", "3", "4", ".", "5", "6">>,
      <<"1", ".", "2", "3", "4", ",", "5", "6">>,
      <<"1", "2", ",", "5", "0">>,
      <<"1", ",", "2", "3", "4">>,
      <<"1", ".", "2", "3", "4", ".", "5", "6", "7">>,
      <<"2", "5", "0">>,
      <<"1", "8", "0", "9", "9">>,
      <<"1", "8", "0", "9">> }

Float(ip, fp) == [ip |-> ip, fp |-> fp]

ContextInputs ==
    { None,
      [vals |-> << >>],
      [vals |-> <<Float(5, 0)>>],
      [vals |-> <<Float(1, FracUnit \div 2)>>],
      [vals |-> <<Float(12, 0), Float(0, FracUnit \div 4)>>] }

Idle == << >>

InitNormalize ==
    /\ tok \in TokensUpTo(MaxTokLen) \cup ExampleTokens \cup {NoneText, << >>}
    /\ context_numbers \in ContextInputs
    /\ line = Idle /\ raw_text = Idle /\ items = Idle /\ ner_persons = Idle
    /\ ret = << >>

NextNormalize == NormalizeOcr \/ NormalizeNlp

SpecNormalize == InitNormalize /\ [][NextNormalize]_vars

-----------------------------------------------------------------------------
(* Receipts drawn for extract and resolve: an earlier line, a later line built from
   a label and a token, and filler lines after them that move the two lines in and
   out of the windows of phase 1 and phase 2 *)

\* how far short of a window the filler stops
MaxBack == 1

LaterLabels ==
    { <<"P", "i", "z", "z", "a", " ">>,
      <<"T", "o", "t", "a", "l", ":", " ">>,
      <<"A", "m", "o", "u", "n", "t", ":", " ">>,
      <<"S", "u", "b", "t", "o", "t", "a", "l", " ">>,
      <<"T", "o", "t", "a", "l", " ", "A", "m", "o", "u", "n", "t", " ">>,
      <<"T", "O", "T", "A", "L", "-">>,
      <<"T", "o", "t", "a", "l", " ", "0", "0", " ", "t", "o", "t", "a", "l", " ">>,
      <<"C", "a", "s", "h", " ">> }

LaterTokens ==
    { <<"4", "5", "9", ".", "0", "0">>,
      <<"0", ",", "0", "0", "0", "1">>,
      <<"1", "0", "0", "0", "0", "0", "0", "0", "0", "0">>,
      <<"9", ".", "9", "9", "9", ".", "9", "9", "9", ",", "9", "9", "9">>,
      <<"5", "0", "0", "0", "0">>,
      <<"0", "9">>,
      <<"0", "0">>,
      <<"1", ",", "2", ".", "3", "4", "5">>,
      <<"1", "8", "0", "9">>,
      <<"7">>,
      <<"1", ".", "2", ".", "3", "4">>,
      <<"1", ".", "0", "0", "0", ".", "0", "0", "0", ",", "0", "1">> }

EarlierLines ==
    { <<>>,
      <<"P", "i", "z", "z", "a", " ", "5", "0", "0", "0", "0">>,
      <<"C", "o", "k", "e", " ", "4", "5", "0">>,
      <<"T", "o", "t", "a", "l", ":", " ", "4", "5", "9", ".", "0", "0">>,
      <<"A", "m", "o", "u", "n", "t", ":", " ", "6", "0", "0">>,
      <<"P", "i", "z", "z", "a", " ", "1", ".", "5", "0">>,
      <<"C", "a", "s", "h", " ", "6", "0", "0">>,
      <<"1", "0", " ", "x", " ", "4", "5", "0">>,
      <<"A", "m", "o", "u", "n", "t", " ", "P", "a", "y", "a", "b", "l", "e", " ", "7", "0">>,
      <<"2", ".", " ", "C", "o", "k", "e", " ", "1", ".", "5", "0">> }

FillerLine == <<"x">>


LaterLines == {l \o t : l \in LaterLabels, t \in LaterTokens} \cup {<< >>}

FillCounts ==
    {0} \cup {PHASE1_LINES - e : e \in 0..MaxBack} \cup {PHASE2_LINES - e : e \in 0..MaxBack}

RECURSIVE Filler(_)
Filler(n) == IF n = 0 THEN << >> ELSE <<NL>> \o FillerLine \o Filler(n - 1)

ReceiptTexts ==
    {a \o <<NL>> \o b \o Filler(n) : a \in EarlierLines, b \in LaterLines, n \in FillCounts}

InitReceipt ==
    /\ raw_text \in ReceiptTexts
    /\ tok = Idle /\ context_numbers = Idle /\ line = Idle
    /\ items = Idle /\ ner_persons = Idle
    /\ ret = << >>

NextReceipt == Extract \/ Resolve

SpecReceipt == InitReceipt /\ [][NextReceipt]_vars

-----------------------------------------------------------------------------
(* Lines drawn for the two classifiers: every keyword of either table and some
   other words, alone and with text around them *)

OtherWords ==
    { <<"P", "i", "z", "z", "a">>,
      <<"P", "i", "z", "z", "a", " ", "M", "a", "r", "g", "h", "e", "r", "i", "t", "a">>,
      <<"M", "a", "r", "t", "i", "n", "i">>,
      <<"C", "o", "k", "e">>,
      <<"C", "A", "S", "H">>,
      <<"V", "a", "t">>,
      <<"T", "o", "t", "a", "l">>,
      <<"T", "O", "T", "A", "L", " ", "D", "U", "E">>,
      <<"O", "r", "d", "e", "r", "#">>,
      <<"x">>,
      <<"9", "8", "7", "6", "5", "4", "3", "2", "1", "0">>,
      <<"1", "2", "3", "4", "5", "6", "7", "8">>,
      <<"1", "2", "3", "4", "5", "6", "7">>,
      <<"2", "0", "2", "5", "-", "1", "1", "-", "0", "6">>,
      <<"1", "2", "/", "1", "1", "/", "2", "0", "2", "5">>,
      <<"a", "\\", "b">>,
      <<"I", "n", "v", "o", "i", "c", "e", " ", "N", "o", ":">> }

LinePrefixes ==
    { <<>>,
      <<"M", "y", " ">> }

LineSuffixes ==
    { <<>>,
      <<" ", "2", "5", "0">>,
      <<" ", "1", "2", ".", "5", "0">>,
      <<" ", "4", "5", "2", "1">> }


ClassifyWords ==
    {OCR_METADATA_KEYWORDS[i] : i \in 1..Len(OCR_METADATA_KEYWORDS)}
        \cup {NLP_METADATA_KEYWORDS[i] : i \in 1..Len(NLP_METADATA_KEYWORDS)}
        \cup OtherWords

ClassifyLines == {p \o w \o s : p \in LinePrefixes, w \in ClassifyWords, s \in LineSuffixes}

InitClassify ==
    /\ line \in ClassifyLines
    /\ tok = Idle /\ context_numbers = Idle /\ raw_text = Idle
    /\ items = Idle /\ ner_persons = Idle
    /\ ret = << >>

NextClassify == ClassifyOcr \/ ClassifyNlp

SpecClassify == InitClassify /\ [][NextClassify]_vars

-----------------------------------------------------------------------------
(* Texts, items and NER names drawn for associate: a line with a name and a line
   with an item, in either order, with padding between them that moves the name in
   and out of the window around the item line *)

\* how far short of the window the padding starts
MaxPad == 8

NameLines ==
    { <<"J", "o", "h", "n">>,
      <<"A", "n", "n", " ", "L", "e", "e">>,
      <<"j", "o", "a", "n", "n">> }

ItemLines ==
    { <<"B", "u", "r", "g", "e", "r", " ", "8", ".", "0", "0">>,
      <<"J", " ", "B", "u", "r", "g", "e", "r", " ", "8", ".", "0", "0">> }


PadLengths == {0} \cup ((WINDOW - MaxPad)..WINDOW)

Pad(n) == [i \in 1..n |-> "."]

AssociateTexts ==
    {a \o <<NL>> \o Pad(n) \o <<NL>> \o b : a \in NameLines, b \in ItemLines, n \in PadLengths}
        \cup {b \o <<NL>> \o Pad(n) \o <<NL>> \o a :
                  a \in NameLines, b \in ItemLines, n \in PadLengths}
        \cup {NoneText, << >>}

Item(raw) == [description |-> <<"(", "i", "t", "e", "m", ")">>, price |-> Float(8, 0), raw_line |-> raw]

ItemInputs ==
    { << >>,
      <<Item(<<"B", "u", "r", "g", "e", "r", " ", "8", ".", "0", "0">>)>>,
      <<Item(<<"J", " ", "B", "U", "R", "G", "E", "R", " ", "8", ".", "0", "0">>)>>,
      <<Item(<<"C", "o", "k", "e", " ", "1", ".", "5", "0">>)>>,
      <<Item(NoneText)>>,
      <<Item(<<"C", "o", "k", "e", " ", "1", ".", "5", "0">>), Item(<<"B", "u", "r", "g", "e", "r", " ", "8", ".", "0", "0">>)>> }

NerInputs ==
    { << >>,
      <<<<"J", "o", "h", "n">>>>,
      <<<<"J">>>>,
      <<<<"J", "o", "h", "n">>, <<"B", "u", "r", "g", "e", "r">>, <<"J", "o", "h", "n">>>>,
      <<<<"L", "e", "e">>, <<"B", "u", "r", "g", "e", "r">>>> }


\* the names of the NER collaborator are spans of the text it read
IsSpanOf(name, text) == text # NoneText /\ Contains(text, name)

InitAssociate ==
    /\ raw_text \in AssociateTexts
    /\ items \in ItemInputs
    /\ ner_persons \in {n \in NerInputs : \A i \in 1..Len(n) : IsSpanOf(n[i], raw_text)}
    /\ tok = Idle /\ context_numbers = Idle /\ line = Idle
    /\ ret = << >>

NextAssociate == Extract \/ Resolve \/ Associate

SpecAssociate == InitAssociate /\ [][NextAssociate]_vars

-----------------------------------------------------------------------------
(* Claims on the normalizers (SpecNormalize) *)

\* a numeric token as the token patterns cut it: digits, dots and commas between
\* two digits
IsNumericToken(t) ==
    /\ t # NoneText /\ Len(t) >= 2
    /\ \A i \in 1..Len(t) : IsNumChar(t[i])
    /\ IsDigit(t[1]) /\ IsDigit(t[Len(t)])

\* the context holds no value at all
EmptyContext(context) == context = None \/ context.vals = << >>

\* the context holds a value with a fractional part
FractionalContext(context) ==
    context # None /\ \E i \in 1..Len(context.vals) : context.vals[i].fp # 0

\* every separator of the token reads as a thousands separator
AllThousands(t) ==
    \/ HasChar(t, ".") /\ ~HasChar(t, ",") /\ Len(t) - RFind(t, ".") > 2
    \/ HasChar(t, ",") /\ ~HasChar(t, ".") /\ Len(t) - RFind(t, ",") = 3

\* the digits of the token, separators deleted
DigitsOf(t) == SelectSeq(t, IsDigit)

NormalizerCalls == {"normalize_ocr", "normalize_nlp"}

\* C1: a numeric token whose separators are all thousands separators normalizes,
\* with an empty context, to the integer its digits spell, taken at face value, in
\* both normalizers ("1.234.567" gives 1234567.0, "1,234" gives 1234.0).
C1_ThousandsAtFaceValue ==
    \A call \in NormalizerCalls :
        (Done(call) /\ IsNumericToken(tok) /\ AllThousands(tok)
            /\ EmptyContext(context_numbers))
        => ret[call] = IntToFloat(DigitsToInt(DigitsOf(tok)))

-----------------------------------------------------------------------------
(* Claims on the classifiers (SpecClassify) *)

\* C9: the classifier of extract and the classifier of resolve agree on every line.
C9_ClassifiersAgree ==
    (Done("classify_ocr") /\ Done("classify_nlp"))
    => ret["classify_ocr"] = ret["classify_nlp"]

-----------------------------------------------------------------------------
(* Claims on extract and resolve (SpecReceipt) *)

\* the indices of the last n of the lines
LastIndices(lines, n) == {i \in 1..Len(lines) : i > Len(lines) - n}

\* what round(x, 2) can give
Rounded(x) == {Round2(x, {}), Round2(x, {x})}

\* a value strictly between 0 and limit
Within(v, limit) == v # None /\ Less(Zero, v) /\ Less(v, IntToFloat(limit))

\* C3: the total resolve returns is null or a value v with 0 < v < 10,000,000,
\* whether phase 1 or phase 2 returns it, and as returned, after rounding.
C3_TotalInRange ==
    Done("resolve") => (ret["resolve"] = None \/ Within(ret["resolve"], 10000000))

\* C4: every item extract emits has a price p with 0 < p <= 1,000,000 as stored,
\* after rounding; the stored price is never 0.
C4_ItemPricesInRange ==
    Done("extract") =>
        \A i \in 1..Len(ret["extract"]) :
            /\ Less(Zero, ret["extract"][i].price)
            /\ LessEq(ret["extract"][i].price, IntToFloat(1000000))

\* the line is one phase 1 does not skip: not METADATA, or containing "total"
NotSkipped(ln) == ~nlp_is_metadata_line(ln) \/ Contains(Lower(ln), TOTAL_WORD)

\* the value of the keyword match of the line at position p, when it is > 0
PositiveMatchAt(ln, p, context) ==
    LET v == clean_and_convert_token(KeywordTokenAt(ln, p), context)
    IN  IF v # None /\ Less(Zero, v) THEN {v} ELSE {}

\* the values > 0 that follow a total keyword anywhere on the line
AnyMatchValues(ln, context) ==
    UNION {PositiveMatchAt(ln, p, context) : p \in KeywordPositions(ln)}

\* the value > 0 that follows the leftmost total keyword match of the line
LeftmostMatchValues(ln, context) ==
    LET ps == KeywordPositions(ln)
    IN  IF ps = {} THEN {}
        ELSE PositiveMatchAt(ln, CHOOSE p \in ps : \A q \in ps : p <= q, context)

\* the lines among the last 12 that are not skipped and whose leftmost keyword
\* match has a value > 0
KeywordLines(lines, context) ==
    {i \in LastIndices(lines, 12) :
        NotSkipped(lines[i]) /\ LeftmostMatchValues(lines[i], context) # {}}

\* the lines among the last 12 that are not skipped and have some keyword followed
\* by a value > 0
AnyKeywordLines(lines, context) ==
    {i \in LastIndices(lines, 12) :
        NotSkipped(lines[i]) /\ AnyMatchValues(lines[i], context) # {}}

Latest(indices) == CHOOSE i \in indices : \A j \in indices : j <= i

\* C5 as stated: if among the last 12 non-empty lines a line that is not skipped
\* has a total keyword immediately followed by a numeric token that normalizes to a
\* value > 0, resolve returns the rounded value of such a match on the latest such
\* line, whatever larger numbers occur on other lines.
C5_AnyKeywordMatch ==
    Done("resolve") =>
        LET lines == StrippedLines(raw_text)
            context == nlp_context(lines)
            such == AnyKeywordLines(lines, context)
        IN  such # {} =>
                \E v \in AnyMatchValues(lines[Latest(such)], context) :
                    ret["resolve"] \in Rounded(v)

\* C5, amended: if among the last 12 non-empty lines a line that is not skipped has
\* its leftmost total keyword match (keyword immediately followed by a numeric
\* token) normalize to a value > 0, resolve returns the rounded value of that match
\* on the latest such line, whatever larger numbers occur on other lines.
C5_LeftmostKeywordMatch ==
    Done("resolve") =>
        LET lines == StrippedLines(raw_text)
            context == nlp_context(lines)
            such == KeywordLines(lines, context)
        IN  such # {} =>
                \E v \in LeftmostMatchValues(lines[Latest(such)], context) :
                    ret["resolve"] \in Rounded(v)

\* resolve has returned the value of the latest keyword line although the text has
\* a larger phase 2 candidate on another line
C5_Witness ==
    /\ Done("resolve")
    /\ LET lines == StrippedLines(raw_text)
           context == nlp_context(lines)
           such == KeywordLines(lines, context)
           cands == Candidates(lines, context)
       IN  /\ such # {}
           /\ \E v \in LeftmostMatchValues(lines[Latest(such)], context) :
                  /\ ret["resolve"] \in Rounded(v)
                  /\ \E k \in 1..Len(cands) : Less(v, cands[k])

\* the numeric tokens of the non-METADATA lines among the last 20, each as the
\* pair of its line and its rank on the line
TokenSlots(lines) ==
    UNION {{<<i, k>> : k \in 1..Len(Tokens(lines[i]))} :
              i \in {j \in LastIndices(lines, 20) : ~nlp_is_metadata_line(lines[j])}}

SlotValue(lines, slot, context) ==
    clean_and_convert_token(Tokens(lines[slot[1]])[slot[2]], context)

\* the candidates of phase 2
CandidateSlots(lines, context) ==
    {slot \in TokenSlots(lines) : Within(SlotValue(lines, slot, context), 10000000)}

\* a slot of the highest value among slots
Highest(lines, slots, context) ==
    CHOOSE a \in slots :
        \A b \in slots : LessEq(SlotValue(lines, b, context), SlotValue(lines, a, context))

\* the candidate phase 2 selects: none, the second-highest when the highest is
\* more than 50 times it, the highest otherwise
Selected(lines, context) ==
    LET cands == CandidateSlots(lines, context)
        top == Highest(lines, cands, context)
        second == Highest(lines, cands \ {top}, context)
    IN  IF cands = {} THEN None
        ELSE IF cands = {top} THEN SlotValue(lines, top, context)
        ELSE IF Less(Times(50, SlotValue(lines, second, context)),
                     SlotValue(lines, top, context))
             THEN SlotValue(lines, second, context)
             ELSE SlotValue(lines, top, context)

AmountOnly(ln) == KeywordPositions(ln) # {} /\ ~Contains(Lower(ln), TOTAL_WORD)

\* C10: phase 1 of resolve only returns a value taken from a line that contains
\* the word "total": a line that matches the keyword pattern only through "amount
\* due", "amount payable" or "amount" contains the metadata keyword "amount", is
\* classified METADATA and is skipped.
C10_Phase1FromTotalLines ==
    Done("resolve") =>
        LET lines == StrippedLines(raw_text)
            context == nlp_context(lines)
            such == KeywordLines(lines, context)
        IN  /\ \A i \in 1..Len(lines) :
                   AmountOnly(lines[i]) =>
                       /\ Contains(Lower(lines[i]), <<"a", "m", "o", "u", "n", "t">>)
                       /\ nlp_is_metadata_line(lines[i])
                       /\ ~NotSkipped(lines[i])
                       /\ i \notin such
            /\ such # {} =>
                   /\ Contains(Lower(lines[Latest(such)]), TOTAL_WORD)
                   /\ \E v \in LeftmostMatchValues(lines[Latest(such)], context) :
                          ret["resolve"] \in Rounded(v)

\* the last 12 lines hold a line that matches only through "amount", after a line
\* with "total" whose value resolve has returned
C10_Witness ==
    /\ Done("resolve")
    /\ LET lines == StrippedLines(raw_text)
           context == nlp_context(lines)
           such == KeywordLines(lines, context)
       IN  /\ such # {}
           /\ \E i \in LastIndices(lines, 12) :
                  /\ AmountOnly(lines[i])
                  /\ i > Latest(such)
                  /\ AnyMatchValues(lines[i], context) # {}
           /\ Contains(Lower(lines[Latest(such)]), TOTAL_WORD)
           /\ \E v \in LeftmostMatchValues(lines[Latest(such)], context) :
                  ret["resolve"] \in Rounded(v)

-----------------------------------------------------------------------------
(* Claims on associate and on missing input (SpecAssociate) *)

\* the raw line of the item, '' when it has none
RawOrEmpty(it) == IF it.raw_line = NoneText THEN << >> ELSE it.raw_line

\* where raw occurs in text, case-insensitively
Occurrences(raw, text) ==
    {p \in 1..(Len(text) - Len(raw) + 1) :
        Lower(SubSeq(text, p, p + Len(raw) - 1)) = Lower(raw)}

\* the first occurrence of raw in text with 80 characters before and after it
WindowOf(raw, text) ==
    LET ps == Occurrences(raw, text)
        p == CHOOSE a \in ps : \A b \in ps : a <= b
        from == IF p - 80 < 1 THEN 1 ELSE p - 80
        to == IF p + Len(raw) + 79 > Len(text) THEN Len(text) ELSE p + Len(raw) + 79
    IN  IF ps = {} THEN << >> ELSE SubSeq(text, from, to)

\* the name matches the item as a whole word, case-insensitively, in the raw line
\* of the item or in the window around it
InRawLine(name, it) == name # << >> /\ WordSearch(Lower(name), Lower(RawOrEmpty(it)))
InWindow(name, it, text) ==
    name # << >> /\ WordSearch(Lower(name), Lower(WindowOf(RawOrEmpty(it), text)))
Matches(name, it, text) == InRawLine(name, it) \/ InWindow(name, it, text)

\* the positions of the candidate names that match item i (0-based)
MatchingNames(persons, i, text) ==
    {k \in 1..Len(persons) : Matches(persons[k], items[i + 1], text)}

\* those of at least 2 characters, white space trimmed
LongMatchingNames(persons, i, text) ==
    {k \in MatchingNames(persons, i, text) : Len(Strip(persons[k])) >= 2}

FirstOf(name, persons) ==
    CHOOSE k \in 1..Len(persons) :
        persons[k] = name /\ \A j \in 1..(k - 1) : persons[j] # name

\* the value lists the names at the positions `matched`, each once, in the order
\* they first matched
ListsInOrder(value, matched, persons) ==
    /\ value # << >>
    /\ {value[a] : a \in 1..Len(value)} = {persons[k] : k \in matched}
    /\ \A a, b \in 1..Len(value) : a < b => value[a] # value[b]
    /\ \A a, b \in 1..Len(value) :
           a < b => FirstOf(value[a], persons) < FirstOf(value[b], persons)

\* C7 as stated: an item index is a key of the mapping if and only if at least one
\* candidate name matches the item as a whole word, case-insensitively, in its raw
\* line or in the window of 80 characters around the first occurrence of the raw
\* line; every value is a non-empty list without duplicates, in the order the
\* names first matched; no key is outside the item indices.
C7_KeysAreMatchedItems ==
    (Done("associate") /\ raw_text # NoneText /\ raw_text # << >> /\ items # << >>) =>
        LET persons == Persons(raw_text, ner_persons)
            mapping == ret["associate"]
        IN  /\ DOMAIN mapping \subseteq 0..(Len(items) - 1)
            /\ \A i \in 0..(Len(items) - 1) :
                   i \in DOMAIN mapping <=> MatchingNames(persons, i, raw_text) # {}
            /\ \A i \in DOMAIN mapping :
                   ListsInOrder(mapping[i], MatchingNames(persons, i, raw_text), persons)

\* C7, amended: an item index is a key of the mapping if and only if at least one
\* candidate name of at least 2 characters (white space trimmed) matches the item
\* as a whole word, case-insensitively, in its raw line or in the window of 80
\* characters around the first occurrence of the raw line; every value is a
\* non-empty list of those names without duplicates, in the order they first
\* matched; no key is outside the item indices.
C7_KeysAreItemsMatchedByLongNames ==
    (Done("associate") /\ raw_text # NoneText /\ raw_text # << >> /\ items # << >>) =>
        LET persons == Persons(raw_text, ner_persons)
            mapping == ret["associate"]
        IN  /\ DOMAIN mapping \subseteq 0..(Len(items) - 1)
            /\ \A i \in 0..(Len(items) - 1) :
                   i \in DOMAIN mapping <=> LongMatchingNames(persons, i, raw_text) # {}
            /\ \A i \in DOMAIN mapping :
                   ListsInOrder(mapping[i], LongMatchingNames(persons, i, raw_text),
                                persons)

\* associate has returned, for an item, two names out of three matching candidates
\* of which one repeats, one of them matched in the window only; another item of
\* the call has no key
C7_Witness ==
    /\ Done("associate") /\ raw_text # NoneText /\ items # << >>
    /\ LET persons == Persons(raw_text, ner_persons)
           mapping == ret["associate"]
       IN  /\ \E i \in DOMAIN mapping :
                  /\ Len(mapping[i]) = 2
                  /\ Cardinality(LongMatchingNames(persons, i, raw_text)) = 3
                  /\ \E a \in 1..2 :
                         /\ ~InRawLine(mapping[i][a], items[i + 1])
                         /\ InWindow(mapping[i][a], items[i + 1], raw_text)
           /\ \E i \in 0..(Len(items) - 1) : i \notin DOMAIN mapping

MissingText == raw_text = NoneText \/ raw_text = << >>

\* C8: on a missing (null) or empty text extract returns an empty item sequence,
\* resolve returns null and associate returns an empty mapping; associate also
\* returns an empty mapping when the item list is empty; none of them fails.
C8_MissingInput ==
    /\ (Done("extract") /\ MissingText) => ret["extract"] = << >>
    /\ (Done("resolve") /\ MissingText) => ret["resolve"] = None
    /\ (Done("associate") /\ (MissingText \/ items = << >>)) =>
           DOMAIN ret["associate"] = {}

\* the three calls have returned on a null text with an item to associate
C8_Witness ==
    /\ raw_text = NoneText /\ items # << >>
    /\ Done("extract") /\ Done("resolve") /\ Done("associate")
    /\ ret["extract"] = << >>
    /\ ret["resolve"] = None
    /\ DOMAIN ret["associate"] = {}

=============================================================================
